---- MODULE Spec2Model ----
(***************************************************************************)
(* Model of TaskScheduler.__init__ (schedule.py): the construction of the  *)
(* discrete quadratic model from a task list, a horizon and the hour       *)
(* preferences.  One action per construction step of __init__.             *)
(*                                                                         *)
(* Strings (task names, chunk labels) are sequences of character codes,    *)
(* compared as Python compares str (lexicographically by code point).      *)
(* Biases are exact rationals <<numerator, denominator>>; Python computes  *)
(* them as floats, whose rounding is far below the unit steps compared     *)
(* here.                                                                   *)
(***************************************************************************)
EXTENDS Integers, Sequences, FiniteSets

VARIABLES pc, err, tasks_file, tasks, num_days, max_task_duration, max_deadline,
          unavailable_hours_file, favorite_hours_file,
          unavailable_hours, favorite_hours, dqm

vars == <<pc, err, tasks_file, tasks, num_days, max_task_duration, max_deadline,
          unavailable_hours_file, favorite_hours_file,
          unavailable_hours, favorite_hours, dqm>>

(* ---------------- bounds of the explored inputs ---------------- *)
MaxTasks == 2
MaxDuration == 3
MaxChunk == 2
MaxDays == 1
MaxChunks == 4

Deadlines == {1, 2}
Priorities == {0, 1}
UnavailableFiles == {{}, {1}}
FavoriteFiles == {{}, {0}, {1}}

(* ---------------- program constants ---------------- *)
HoursPerDay == 24
CONFLICT_PENALTY == 10
DEADLINE_PENALTY == 10
UNAVAILABLE_PENALTY == 10
REWARD_FACTOR == 1
FAVORITE_HOUR_REWARD == 1

(* ---------------- Python arithmetic and strings ---------------- *)
\* Python's // : floor division, for a divisor of either sign (never 0 here).
PyFloorDiv(a, b) ==
    IF b > 0 THEN (IF a >= 0 THEN a \div b ELSE -(((-a) + b - 1) \div b))
    ELSE (IF a >= 0 THEN -((a + (-b) - 1) \div (-b)) ELSE (-a) \div (-b))

\* Python's % : the result has the sign of the divisor.
PyMod(a, b) == a - b * PyFloorDiv(a, b)

\* range(n) as the set of its values; empty for n <= 0.
Range(n) == 0 .. (n - 1)

\* str(i) for i >= 0, as character codes.
RECURSIVE IntStr(_)
IntStr(i) == IF i < 10 THEN <<48 + i>> ELSE IntStr(i \div 10) \o <<48 + (i % 10)>>

\* f"{task}_{i}"
ChunkLabel(task, i) == task \o <<95>> \o IntStr(i)

\* Python's str < str.
StrLess(a, b) ==
    \E i \in 1 .. (Len(a) + 1) :
        /\ i <= Len(b)
        /\ \A j \in 1 .. (i - 1) : a[j] = b[j]
        /\ (i = Len(a) + 1 \/ a[i] < b[i])

(* ---------------- rationals ---------------- *)
Rat(n, d) == <<n, d>>
RatInt(n) == <<n, 1>>
RatAdd(x, y) == <<x[1] * y[2] + y[1] * x[2], x[2] * y[2]>>
RatSub(x, y) == <<x[1] * y[2] - y[1] * x[2], x[2] * y[2]>>
RatNeg(x) == <<-x[1], x[2]>>
RatEq(x, y) == x[1] * y[2] = y[1] * x[2]
RatLess(x, y) == x[1] * y[2] < y[1] * x[2]

(* ---------------- dict of tasks, in insertion order ---------------- *)
\* tasks is a sequence of records [task, duration, deadline, priority].
Keys(d) == {d[i].task : i \in 1 .. Len(d)}

\* d[key] = info : overwrite in place when present, append otherwise.
DictSet(d, key, info) ==
    LET rec == [task |-> key, duration |-> info.duration,
                deadline |-> info.deadline, priority |-> info.priority]
    IN IF key \in Keys(d)
       THEN [i \in 1 .. Len(d) |-> IF d[i].task = key THEN rec ELSE d[i]]
       ELSE Append(d, rec)

(* ---------------- _split_tasks ---------------- *)
\* The loop "for i in range(num_chunks)" from index i on.
RECURSIVE FullChunks(_, _, _, _, _)
FullChunks(split, rec, m, i, num_chunks) ==
    IF i >= num_chunks THEN split
    ELSE FullChunks(DictSet(split, ChunkLabel(rec.task, i),
                            [duration |-> m, deadline |-> rec.deadline,
                             priority |-> rec.priority]),
                    rec, m, i + 1, num_chunks)

\* SplitOne with the remainder chunk given the full chunk duration.
SplitOne_RemainderFull(split, rec, m) ==
    LET num_chunks == PyFloorDiv(rec.duration, m)
        full       == FullChunks(split, rec, m, 0, num_chunks)
    IN IF PyMod(rec.duration, m) > 0
       THEN DictSet(full, ChunkLabel(rec.task, num_chunks),
                    [duration |-> m, deadline |-> rec.deadline,
                     priority |-> rec.priority])
       ELSE full

\* The body of the loop over the tasks, for one task (m # 0).
SplitOne(split, rec, m) ==
    LET duration   == rec.duration
        num_chunks == PyFloorDiv(duration, m)
        remainder  == PyMod(duration, m)
        full       == FullChunks(split, rec, m, 0, num_chunks)
    IN IF remainder > 0
       THEN DictSet(full, ChunkLabel(rec.task, num_chunks),
                    [duration |-> remainder, deadline |-> rec.deadline,
                     priority |-> rec.priority])
       ELSE full

RECURSIVE SplitFrom(_, _, _, _)
SplitFrom(split, ts, m, k) ==
    IF k > Len(ts) THEN split
    ELSE SplitFrom(SplitOne(split, ts[k], m), ts, m, k + 1)

\* _split_tasks: the new dict, or the exception that leaves it.
SplitTasks(ts, m) ==
    IF Len(ts) > 0 /\ m = 0
    THEN [err |-> "ZeroDivisionError", tasks |-> ts]
    ELSE [err |-> "none", tasks |-> SplitFrom(<<>>, ts, m, 1)]

(* ---------------- the discrete quadratic model ---------------- *)
\* variables : labels in registration order;  num_cases, linear : per label;
\* quadratic : one bias per unordered pair of (variable, case) choices.
EmptyDQM == [variables |-> <<>>, num_cases |-> <<>>, linear |-> <<>>,
             quadratic |-> <<>>]

Registered(d) == {d.variables[i] : i \in 1 .. Len(d.variables)}

NumCases(d, label) == d.num_cases[CHOOSE i \in 1 .. Len(d.variables) : d.variables[i] = label]

Linear(d, label) == d.linear[CHOOSE i \in 1 .. Len(d.variables) : d.variables[i] = label]

Zeros(n) == [i \in 1 .. n |-> RatInt(0)]

\* dqm.add_variable(num_cases, label=label)
AddVariable(d, num_cases, label) ==
    IF label \in Registered(d)
    THEN [err |-> "DuplicateVariableError", dqm |-> d]
    ELSE IF num_cases <= 0
    THEN [err |-> "InfeasibleTaskError", dqm |-> d]
    ELSE [err |-> "none",
          dqm |-> [d EXCEPT !.variables = Append(@, label),
                            !.num_cases = Append(@, num_cases),
                            !.linear = Append(@, Zeros(num_cases))]]

\* dqm.set_linear(label, biases): replaces the whole bias vector.
SetLinear(d, label, biases) ==
    IF label \notin Registered(d)
    THEN [err |-> "UnknownVariableError", dqm |-> d]
    ELSE IF Len(biases) # NumCases(d, label)
    THEN [err |-> "ValueError", dqm |-> d]
    ELSE [err |-> "none",
          dqm |-> [d EXCEPT !.linear =
                     [i \in 1 .. Len(d.variables) |->
                        IF d.variables[i] = label THEN biases ELSE @[i]]]]

\* dqm.get_linear(label)
GetLinear(d, label) == Linear(d, label)

QKey(u, cu, v, cv) == {<<u, cu>>, <<v, cv>>}

\* One call dqm.set_quadratic(u, v, {(cu, cv): bias}) is acceptable.
QuadraticCallOk(d, c) ==
    /\ c.u \in Registered(d) /\ c.v \in Registered(d)
    /\ c.u # c.v
    /\ c.cu \in Range(NumCases(d, c.u))
    /\ c.cv \in Range(NumCases(d, c.v))

QuadraticCallErr(d, c) ==
    IF c.u \notin Registered(d) \/ c.v \notin Registered(d)
    THEN "UnknownVariableError" ELSE "ValueError"

\* A batch of calls dqm.set_quadratic(u, v, {(cu, cv): bias}), every call
\* with the same bias: each call sets (never adds to) the one entry of its
\* pair of choices, so the order of the calls does not matter.
SetQuadraticAll(d, calls, bias) ==
    IF \E c \in calls : ~QuadraticCallOk(d, c)
    THEN [err |-> QuadraticCallErr(d, CHOOSE c \in calls : ~QuadraticCallOk(d, c)),
          dqm |-> d]
    ELSE LET new == {QKey(c.u, c.cu, c.v, c.cv) : c \in calls}
         IN [err |-> "none",
             dqm |-> [d EXCEPT !.quadratic =
                        [k \in (DOMAIN d.quadratic) \cup new |->
                           IF k \in new THEN bias ELSE d.quadratic[k]]]]

\* What a solver reads for the pair of choices (u, cu), (v, cv).
Quadratic(d, u, cu, v, cv) ==
    IF QKey(u, cu, v, cv) \in DOMAIN d.quadratic
    THEN d.quadratic[QKey(u, cu, v, cv)] ELSE 0

(* ---------------- _add_variables ---------------- *)
\* NumStartTimes clamped to at least one start time.
NumStartTimes_Clamped(horizon, info) ==
    IF horizon - info.duration + 1 <= 0 THEN 1 ELSE horizon - info.duration + 1

NumStartTimes(horizon, info) == horizon - info.duration + 1

RECURSIVE AddVariablesFrom(_, _, _, _)
AddVariablesFrom(d, ts, horizon, k) ==
    IF k > Len(ts) THEN [err |-> "none", dqm |-> d]
    ELSE LET r == AddVariable(d, NumStartTimes(horizon, ts[k]), ts[k].task)
         IN IF r.err # "none" THEN r
            ELSE AddVariablesFrom(r.dqm, ts, horizon, k + 1)

(* ---------------- _add_constraints_and_penalties ---------------- *)
\* PairGuard without the ordering: both orientations of a pair pass.
PairGuard_BothOrders(task1, task2) == task1 # task2

\* PairGuard comparing the first characters only.
PairGuard_FirstChar(task1, task2) == task1[1] < task2[1]

\* "if task1 < task2:  # To avoid double counting"
PairGuard(task1, task2) == StrLess(task1, task2)

\* Conflict with closed intervals: back-to-back chunks conflict.
Conflict_Inclusive(t1, d1, t2, d2) ==
    \/ (t1 <= t2 /\ t2 <= t1 + d1)
    \/ (t2 <= t1 /\ t1 <= t2 + d2)

\* The condition under which a penalty entry is written for (t1, t2).
Conflict(t1, d1, t2, d2) ==
    \/ (t1 <= t2 /\ t2 < t1 + d1)
    \/ (t2 <= t1 /\ t1 < t2 + d2)

\* The (task1, task2, t1, t2) reached by the four nested loops for which
\* set_quadratic is called.
ConflictCalls(ts, horizon) ==
    UNION { { [u |-> ts[p[1]].task, v |-> ts[p[2]].task, cu |-> t[1], cv |-> t[2]] :
                t \in { x \in Range(NumStartTimes(horizon, ts[p[1]]))
                              \X Range(NumStartTimes(horizon, ts[p[2]])) :
                          Conflict(x[1], ts[p[1]].duration, x[2], ts[p[2]].duration) } } :
            p \in { q \in (1 .. Len(ts)) \X (1 .. Len(ts)) :
                      PairGuard(ts[q[1]].task, ts[q[2]].task) } }

AddConstraintsAndPenalties(d, ts, horizon) ==
    SetQuadraticAll(d, ConflictCalls(ts, horizon), CONFLICT_PENALTY)

(* ---------------- _add_deadline_and_unavailable_penalties ---------------- *)
\* DeadlinePenaltyAt that also penalises finishing exactly at the deadline.
DeadlinePenaltyAt_Inclusive(info, t) ==
    IF t + info.duration >= info.deadline THEN DEADLINE_PENALTY ELSE 0

DeadlinePenaltyAt(info, t) ==
    IF t + info.duration > info.deadline THEN DEADLINE_PENALTY ELSE 0

UnavailablePenaltyAt(unavailable, t) ==
    IF t \in unavailable THEN UNAVAILABLE_PENALTY ELSE 0

\* combined_penalties: position i holds start time i - 1.
CombinedPenalties(info, horizon, unavailable) ==
    [i \in 1 .. NumStartTimes(horizon, info) |->
        RatInt(DeadlinePenaltyAt(info, i - 1) + UnavailablePenaltyAt(unavailable, i - 1))]

RECURSIVE AddPenaltiesFrom(_, _, _, _, _)
AddPenaltiesFrom(d, ts, horizon, unavailable, k) ==
    IF k > Len(ts) THEN [err |-> "none", dqm |-> d]
    ELSE LET r == SetLinear(d, ts[k].task, CombinedPenalties(ts[k], horizon, unavailable))
         IN IF r.err # "none" THEN r
            ELSE AddPenaltiesFrom(r.dqm, ts, horizon, unavailable, k + 1)

(* ---------------- _add_priority_rewards ---------------- *)
PriorityRewardAt(info, t) == Rat(REWARD_FACTOR * info.priority, t + 1)

FavoriteRewardAt(favorite, t) ==
    IF t \in favorite THEN FAVORITE_HOUR_REWARD ELSE 0

\* CombinedRewards over range(max_deadline - duration): one entry short.
CombinedRewards_Short(info, horizon, favorite) ==
    [i \in 1 .. (horizon - info.duration) |->
        RatAdd(PriorityRewardAt(info, i - 1), RatInt(FavoriteRewardAt(favorite, i - 1)))]

CombinedRewards(info, horizon, favorite) ==
    [i \in 1 .. NumStartTimes(horizon, info) |->
        RatAdd(PriorityRewardAt(info, i - 1), RatInt(FavoriteRewardAt(favorite, i - 1)))]

MinLen(a, b) == IF Len(a) <= Len(b) THEN Len(a) ELSE Len(b)

\* combined_biases = [penalty + reward for penalty, reward in zip(...)]
CombinedBiases(current_penalties, combined_rewards) ==
    [i \in 1 .. MinLen(current_penalties, combined_rewards) |->
        RatAdd(current_penalties[i], combined_rewards[i])]

RECURSIVE AddRewardsFrom(_, _, _, _, _)
AddRewardsFrom(d, ts, horizon, favorite, k) ==
    IF k > Len(ts) THEN [err |-> "none", dqm |-> d]
    ELSE IF ts[k].task \notin Registered(d)
    THEN [err |-> "UnknownVariableError", dqm |-> d]
    ELSE LET r == SetLinear(d, ts[k].task,
                            CombinedBiases(GetLinear(d, ts[k].task),
                                           CombinedRewards(ts[k], horizon, favorite)))
         IN IF r.err # "none" THEN r
            ELSE AddRewardsFrom(r.dqm, ts, horizon, favorite, k + 1)

(* ---------------- the inputs ---------------- *)
\* Distinct task identifiers, in file order: "B", "A", "A_1", "A_1_1", ...
RECURSIVE TaskName(_)
TaskName(i) ==
    IF i = 1 THEN <<66>>
    ELSE IF i = 2 THEN <<65>>
    ELSE TaskName(i - 1) \o <<95, 49>>

\* Short tasks, and one task longer than a day.
Durations == (1 .. MaxDuration) \cup {HoursPerDay + 1}

\* max_task_duration: invalid (-1, 0), small, and longer than a day.
ChunkLimits == ((-1) .. MaxChunk) \cup {HoursPerDay + 1}

TaskInfos == [duration : Durations, deadline : Deadlines, priority : Priorities]

\* Files of one task: every duration, deadline and priority.
SingleTaskFiles ==
    { <<[task |-> TaskName(1), duration |-> info.duration,
         deadline |-> info.deadline, priority |-> info.priority]>> :
      info \in TaskInfos }

\* Files of several tasks: every combination of durations; the i-th task is
\* due at hour i and has priority i - 1.
MultiTaskFiles ==
    UNION { { [i \in 1 .. n |->
                 [task |-> TaskName(i), duration |-> f[i],
                  deadline |-> i, priority |-> i - 1]] :
              f \in [1 .. n -> Durations] } : n \in 2 .. MaxTasks }

\* The rows of the tasks file.
TaskFiles == SingleTaskFiles \cup MultiTaskFiles

\* The number of chunks the rows split into (none for a limit below 1).
RECURSIVE ChunkCount(_, _, _)
ChunkCount(rows, m, k) ==
    IF k > Len(rows) \/ m < 1 THEN 0
    ELSE (rows[k].duration + m - 1) \div m + ChunkCount(rows, m, k + 1)

\* _read_tasks: tasks[task] = {...} for every row.
RECURSIVE ReadTasksFrom(_, _, _)
ReadTasksFrom(d, rows, k) ==
    IF k > Len(rows) THEN d
    ELSE ReadTasksFrom(DictSet(d, rows[k].task, rows[k]), rows, k + 1)

ReadTasks(rows) == ReadTasksFrom(<<>>, rows, 1)

(* ---------------- __init__ ---------------- *)
\* The state after self.tasks = self._read_tasks().
Init ==
    /\ pc = "split_tasks"
    /\ err = "none"
    /\ tasks_file \in TaskFiles
    /\ tasks = ReadTasks(tasks_file)
    /\ num_days \in 0 .. MaxDays
    /\ max_task_duration \in ChunkLimits
    \* the day-long task is explored with the day-long chunk limit only
    /\ (\E k \in 1 .. Len(tasks_file) : tasks_file[k].duration > MaxDuration)
          => max_task_duration > MaxChunk
    /\ ChunkCount(tasks_file, max_task_duration, 1) <= MaxChunks
    \* every hour preference for one task, one preference for several
    /\ unavailable_hours_file \in
         (IF Len(tasks_file) = 1 THEN UnavailableFiles ELSE {{1}})
    /\ favorite_hours_file \in
         (IF Len(tasks_file) = 1 THEN FavoriteFiles ELSE {{0}})
    /\ max_deadline = 0
    /\ unavailable_hours = {}
    /\ favorite_hours = {}
    /\ dqm = EmptyDQM

\* self.tasks = self._split_tasks()
DoSplitTasks ==
    /\ pc = "split_tasks"
    /\ LET r == SplitTasks(tasks, max_task_duration)
       IN /\ tasks' = r.tasks
          /\ err' = r.err
          /\ pc' = IF r.err = "none" THEN "read_hours" ELSE "failed"
    /\ UNCHANGED <<tasks_file, num_days, max_task_duration, max_deadline,
                   unavailable_hours_file, favorite_hours_file,
                   unavailable_hours, favorite_hours, dqm>>

\* max_deadline, the two hour sets and the empty DiscreteQuadraticModel.
DoReadHours ==
    /\ pc = "read_hours"
    /\ max_deadline' = num_days * HoursPerDay
    /\ unavailable_hours' = unavailable_hours_file
    /\ favorite_hours' = favorite_hours_file
    /\ dqm' = EmptyDQM
    /\ pc' = "add_variables"
    /\ UNCHANGED <<err, tasks_file, tasks, num_days, max_task_duration,
                   unavailable_hours_file, favorite_hours_file>>

\* One construction step that works on the model: r is its outcome.
Step(r, next) ==
    /\ dqm' = r.dqm
    /\ err' = r.err
    /\ pc' = IF r.err = "none" THEN next ELSE "failed"
    /\ UNCHANGED <<tasks_file, tasks, num_days, max_task_duration, max_deadline,
                   unavailable_hours_file, favorite_hours_file,
                   unavailable_hours, favorite_hours>>

DoAddVariables ==
    /\ pc = "add_variables"
    /\ Step(AddVariablesFrom(dqm, tasks, max_deadline, 1), "constraints")

DoAddConstraintsAndPenalties ==
    /\ pc = "constraints"
    /\ Step(AddConstraintsAndPenalties(dqm, tasks, max_deadline), "penalties")

DoAddDeadlineAndUnavailablePenalties ==
    /\ pc = "penalties"
    /\ Step(AddPenaltiesFrom(dqm, tasks, max_deadline, unavailable_hours, 1), "rewards")

DoAddPriorityRewards ==
    /\ pc = "rewards"
    /\ Step(AddRewardsFrom(dqm, tasks, max_deadline, favorite_hours, 1), "done")

Next ==
    \/ DoSplitTasks
    \/ DoReadHours
    \/ DoAddVariables
    \/ DoAddConstraintsAndPenalties
    \/ DoAddDeadlineAndUnavailablePenalties
    \/ DoAddPriorityRewards

Spec == Init /\ [][Next]_vars

TypeOK ==
    /\ pc \in {"split_tasks", "read_hours", "add_variables", "constraints",
               "penalties", "rewards", "done", "failed"}
    /\ (pc = "failed") = (err # "none")

(* ======================================================================= *)
(* Properties                                                              *)
(* ======================================================================= *)
Constructed == pc = "done"

Horizon == num_days * HoursPerDay

\* Domain(chunk) = 0 .. horizon - duration.
DomainSize(c) == Horizon - c.duration + 1
Domain(c) == 0 .. (Horizon - c.duration)

\* The hours the interval [t, t + d) covers.
Hours(t, d) == t .. (t + d - 1)

Bias(c, t) == Linear(dqm, c.task)[t + 1]

\* The chunks of one row of the tasks file, as positions of the split dict.
ChunksOf(row) ==
    {p \in 1 .. Len(tasks) :
        \E i \in 0 .. row.duration : tasks[p].task = ChunkLabel(row.task, i)}

RECURSIVE SumDurations(_, _)
SumDurations(first, k) ==
    IF k = 0 THEN 0 ELSE tasks[first + k - 1].duration + SumDurations(first, k - 1)

C1_Task(row, m) ==
    LET own   == ChunksOf(row)
        k     == Cardinality(own)
        first == CHOOSE p \in own : \A q \in own : p <= q
    IN /\ k >= 1
       /\ own = first .. (first + k - 1)
       /\ \A i \in 0 .. (k - 1) :
             /\ tasks[first + i].task = ChunkLabel(row.task, i)
             /\ tasks[first + i].duration > 0
             /\ tasks[first + i].duration <= m
             /\ (i < k - 1 => tasks[first + i].duration = m)
       /\ tasks[first + k - 1].duration =
             (IF row.duration % m = 0 THEN m ELSE row.duration % m)
       /\ SumDurations(first, k) = row.duration

\* C1: for duration d >= 1 and max chunk duration m >= 1, the chunks of a
\* task are indexed 0..k-1 in ascending order, their durations sum to d,
\* every duration is in (0, m], and all are m except possibly the last,
\* which holds the remainder d mod m.
C1_SplitSumsAndBounds ==
    (pc \notin {"split_tasks", "failed"} /\ max_task_duration >= 1)
      => \A r \in 1 .. Len(tasks_file) :
            tasks_file[r].duration >= 1 => C1_Task(tasks_file[r], max_task_duration)

C1_Witness ==
    /\ pc = "read_hours"
    /\ max_task_duration = 2
    /\ \E r \in 1 .. Len(tasks_file) :
         /\ tasks_file[r].duration = 3
         /\ \E p \in 1 .. (Len(tasks) - 1) :
              /\ tasks[p].task = ChunkLabel(tasks_file[r].task, 0)
              /\ tasks[p].duration = 2
              /\ tasks[p + 1].task = ChunkLabel(tasks_file[r].task, 1)
              /\ tasks[p + 1].duration = 1

HasEntry(c1, t1, c2, t2) == QKey(c1.task, t1, c2.task, t2) \in DOMAIN dqm.quadratic

\* C2: for distinct chunks c1, c2 and start times t1, t2 of their domains, a
\* pairwise penalty entry exists iff t1 < t2 + dur2 and t2 < t1 + dur1;
\* back-to-back choices (t1 + dur1 = t2 or t2 + dur2 = t1) have no entry.
C2_OverlapIff ==
    Constructed =>
      \A i, j \in 1 .. Len(tasks) :
        i # j =>
          \A t1 \in Domain(tasks[i]), t2 \in Domain(tasks[j]) :
            /\ HasEntry(tasks[i], t1, tasks[j], t2)
                 <=> (t1 < t2 + tasks[j].duration /\ t2 < t1 + tasks[i].duration)
            /\ (t1 + tasks[i].duration = t2 \/ t2 + tasks[j].duration = t1)
                 => ~HasEntry(tasks[i], t1, tasks[j], t2)

C2_Witness ==
    /\ Constructed
    /\ \E i, j \in 1 .. Len(tasks) :
         /\ i # j
         /\ tasks[i].duration = 2
         /\ HasEntry(tasks[i], 3, tasks[j], 4)
         /\ ~HasEntry(tasks[i], 3, tasks[j], 5)

\* The pairwise part of the cost of a complete assignment a (position of
\* the chunk -> start time), as a solver evaluates it.
RECURSIVE PairwiseCostFrom(_, _, _)
PairwiseCostFrom(a, i, j) ==
    IF i >= Len(tasks) THEN 0
    ELSE IF j > Len(tasks) THEN PairwiseCostFrom(a, i + 1, i + 2)
    ELSE Quadratic(dqm, tasks[i].task, a[i], tasks[j].task, a[j])
           + PairwiseCostFrom(a, i, j + 1)

PairwiseCost(a) == PairwiseCostFrom(a, 1, 2)

OverlappingPairs(a) ==
    {q \in (1 .. Len(tasks)) \X (1 .. Len(tasks)) :
        /\ q[1] < q[2]
        /\ Hours(a[q[1]], tasks[q[1]].duration)
             \cap Hours(a[q[2]], tasks[q[2]].duration) # {}}

\* Complete assignments: chunk number k starts at (k - 1) * stride, or at
\* its last start time when that is earlier.
Staggered(stride) ==
    [k \in 1 .. Len(tasks) |->
        IF (k - 1) * stride \in Domain(tasks[k]) THEN (k - 1) * stride
        ELSE Horizon - tasks[k].duration]

\* C3: every unordered pair of distinct chunks is processed in exactly one
\* orientation, every pair of choices costs CONFLICT_PENALTY when the two
\* intervals overlap and nothing otherwise, and so the pairwise cost of a
\* complete assignment is CONFLICT_PENALTY times its overlapping pairs.
C3_EachPairOnce ==
    Constructed =>
      /\ \A i, j \in 1 .. Len(tasks) :
           i < j =>
             /\ PairGuard(tasks[i].task, tasks[j].task)
                  # PairGuard(tasks[j].task, tasks[i].task)
             /\ \A t1 \in Domain(tasks[i]), t2 \in Domain(tasks[j]) :
                  Quadratic(dqm, tasks[i].task, t1, tasks[j].task, t2) =
                    (IF Hours(t1, tasks[i].duration) \cap Hours(t2, tasks[j].duration) # {}
                     THEN CONFLICT_PENALTY ELSE 0)
      /\ \A stride \in 0 .. MaxDuration :
           PairwiseCost(Staggered(stride)) =
             CONFLICT_PENALTY * Cardinality(OverlappingPairs(Staggered(stride)))

C3_Witness ==
    /\ Constructed
    /\ Len(tasks) >= 3
    /\ PairwiseCost(Staggered(0)) = CONFLICT_PENALTY * 3
    /\ PairwiseCost(Staggered(1)) < PairwiseCost(Staggered(0))
    /\ \E i, j \in 1 .. Len(tasks) :
         i < j /\ PairGuard(tasks[j].task, tasks[i].task)

\* The four terms of the bias of chunk c at start time t, as specified.
DeadlineTerm(c, t) == IF t + c.duration > c.deadline THEN 10 ELSE 0
UnavailableTerm(t) == IF t \in unavailable_hours THEN 10 ELSE 0
PriorityTerm(c, t) == Rat(c.priority, t + 1)
FavoriteTerm(t) == IF t \in favorite_hours THEN 1 ELSE 0

\* C4: the final bias of (chunk, t) is deadline_penalty(t) +
\* unavailable_penalty(t) - priority_reward(t) - favorite_hour_reward(t).
C4_BiasFormula ==
    Constructed =>
      \A k \in 1 .. Len(tasks) :
        \A t \in Domain(tasks[k]) :
          RatEq(Bias(tasks[k], t),
                RatSub(RatInt(DeadlineTerm(tasks[k], t) + UnavailableTerm(t)
                                - FavoriteTerm(t)),
                       PriorityTerm(tasks[k], t)))

\* C5: for a fixed chunk, with t_a a favorite hour and t_b not, and all
\* other bias terms equal at t_a and t_b, the final bias at t_a is strictly
\* lower than the final bias at t_b.
C5_FavoriteLowersBias ==
    Constructed =>
      \A k \in 1 .. Len(tasks) :
        \A ta, tb \in Domain(tasks[k]) :
          ( /\ ta \in favorite_hours
            /\ tb \notin favorite_hours
            /\ DeadlineTerm(tasks[k], ta) = DeadlineTerm(tasks[k], tb)
            /\ UnavailableTerm(ta) = UnavailableTerm(tb)
            /\ RatEq(PriorityTerm(tasks[k], ta), PriorityTerm(tasks[k], tb)) )
          => RatLess(Bias(tasks[k], ta), Bias(tasks[k], tb))

\* The final bias without its unavailability term and without the deadline
\* penalty expected at t: what is left is the reward terms, whichever sign
\* they carry.
C6_Rest(c, t) ==
    RatSub(Bias(c, t), RatInt(UnavailableTerm(t) + DeadlineTerm(c, t)))

C6_Rewards(c, t) == RatAdd(PriorityTerm(c, t), RatInt(FavoriteTerm(t)))

\* C6: the final bias includes the deadline penalty exactly when
\* t + duration > deadline (not at t + duration = deadline, nor earlier),
\* and the reward pass, which reads the bias vector back and rewrites it,
\* keeps that contribution.
C6_DeadlineBoundary ==
    Constructed =>
      \A k \in 1 .. Len(tasks) :
        \A t \in Domain(tasks[k]) :
          \/ RatEq(C6_Rest(tasks[k], t), C6_Rewards(tasks[k], t))
          \/ RatEq(C6_Rest(tasks[k], t), RatNeg(C6_Rewards(tasks[k], t)))

C6_Witness ==
    /\ Constructed
    /\ \E k \in 1 .. Len(tasks) :
         \E t \in Domain(tasks[k]) :
           /\ t + tasks[k].duration = tasks[k].deadline
           /\ (t + 1) \in Domain(tasks[k])
           /\ t \notin unavailable_hours /\ (t + 1) \notin unavailable_hours
           /\ t \notin favorite_hours /\ (t + 1) \notin favorite_hours
           /\ tasks[k].priority = 0
           /\ RatEq(Bias(tasks[k], t), RatInt(0))
           /\ RatEq(Bias(tasks[k], t + 1), RatInt(10))

\* The first chunk, in registration order, whose domain would be empty.
FirstInfeasible ==
    CHOOSE k \in 1 .. Len(tasks) :
        /\ DomainSize(tasks[k]) <= 0
        /\ \A j \in 1 .. (k - 1) : DomainSize(tasks[j]) > 0

C8_BadChunkLimitRejected ==
    max_task_duration <= 0 => pc \in {"split_tasks", "failed"}

\* C9: two chunks of the same task get a penalty entry iff their intervals
\* overlap; for two chunks of duration 1 that is penalty 10 at t_0 = t_1 and
\* none at |t_0 - t_1| >= 1.
C9_SameTaskChunks ==
    Constructed =>
      \A r \in 1 .. Len(tasks_file) :
        \A p, q \in ChunksOf(tasks_file[r]) :
          p # q =>
            \A t0 \in Domain(tasks[p]), t1 \in Domain(tasks[q]) :
              /\ Quadratic(dqm, tasks[p].task, t0, tasks[q].task, t1) =
                   (IF Hours(t0, tasks[p].duration) \cap Hours(t1, tasks[q].duration) # {}
                    THEN 10 ELSE 0)
              /\ (tasks[p].duration = 1 /\ tasks[q].duration = 1)
                   => Quadratic(dqm, tasks[p].task, t0, tasks[q].task, t1) =
                        (IF t0 = t1 THEN 10 ELSE 0)

C9_Witness ==
    /\ Constructed
    /\ max_task_duration = 1
    /\ \E r \in 1 .. Len(tasks_file) :
         /\ tasks_file[r].duration = 2
         /\ Quadratic(dqm, ChunkLabel(tasks_file[r].task, 0), 3,
                           ChunkLabel(tasks_file[r].task, 1), 3) = 10
         /\ Quadratic(dqm, ChunkLabel(tasks_file[r].task, 0), 3,
                           ChunkLabel(tasks_file[r].task, 1), 4) = 0

\* C10: every chunk is registered exactly once, with domain size
\* horizon - duration + 1, before any pairwise or bias entry names it; every
\* bias vector has the length of its chunk's domain; every pairwise entry
\* lies inside both domains; no call on the model is rejected as naming an
\* unknown or duplicate variable or as having the wrong shape.
C10_ConstructionOrder ==
    /\ err \notin {"UnknownVariableError", "DuplicateVariableError", "ValueError"}
    /\ \A i, j \in 1 .. Len(dqm.variables) :
         i # j => dqm.variables[i] # dqm.variables[j]
    /\ \A i \in 1 .. Len(dqm.variables) :
         /\ Len(dqm.linear[i]) = dqm.num_cases[i]
         /\ \E k \in 1 .. Len(tasks) :
              /\ tasks[k].task = dqm.variables[i]
              /\ dqm.num_cases[i] = DomainSize(tasks[k])
    /\ \A key \in DOMAIN dqm.quadratic :
         /\ Cardinality({x[1] : x \in key}) = 2
         /\ \A x \in key :
              /\ x[1] \in Registered(dqm)
              /\ x[2] \in 0 .. (NumCases(dqm, x[1]) - 1)
    /\ (pc \in {"split_tasks", "read_hours", "add_variables"})
         => /\ dqm.quadratic = <<>>
            /\ \A i \in 1 .. Len(dqm.variables) :
                 dqm.linear[i] = Zeros(dqm.num_cases[i])
    /\ (pc \in {"constraints", "penalties", "rewards", "done"})
         => dqm.variables = [k \in 1 .. Len(tasks) |-> tasks[k].task]

C10_Witness ==
    /\ Constructed
    /\ Len(dqm.variables) >= 3
    /\ DOMAIN dqm.quadratic # {}
    /\ \E i \in 1 .. Len(dqm.variables) :
         \E t \in 1 .. dqm.num_cases[i] : ~RatEq(dqm.linear[i][t], RatInt(0))

====
